---- MODULE Spec2Model ----
(***************************************************************************)
(* Verlet fluid simulation: the quadtree spatial index (quadtree.py), the  *)
(* Verlet particle (particle.py) and the sub-stepped update loop with its  *)
(* collision pass and boundary reflection (simulation.py).                 *)
(*                                                                         *)
(* Numbers.  The program computes in floating point.  The model computes   *)
(* in exact rational arithmetic: a number is a pair <<n, d>> in lowest     *)
(* terms with d > 0.  Halving, mass ratios and impulses are then exact;    *)
(* rounding error of the float operations is not modelled.  The square     *)
(* root of handle_collision is exact on every argument the model gives it  *)
(* (SqrtArgsExact states this and is checked).                             *)
(***************************************************************************)
EXTENDS Integers, Sequences, FiniteSets, TLC

VARIABLES
    particles,   \* Simulation.particles: index -> Particle (pos, vel, old_pos, radius)
    quad_tree,   \* Simulation.quad_tree: node path -> node (boundary, particles, divided)
    gravity,     \* config.GRAVITY * sub_dt^2, or zero while gravity is off
    pc,          \* position of the program in Simulation.update / the driver
    idx,         \* loop index of the running `for particle in self.particles`
    step,        \* sub-steps finished in the running frame
    frames,      \* frames started so far
    ret,         \* what the last query returned, and how far its list has been walked
    hist         \* history of the running frame and pass (observations only)

vars == <<particles, quad_tree, gravity, pc, idx, step, frames, ret, hist>>

----------------------------------------------------------------------------
(* Exact rational arithmetic *)

RECURSIVE GCD(_, _)
GCD(a, b) == IF b = 0 THEN a ELSE GCD(b, a % b)

IAbs(n) == IF n < 0 THEN -n ELSE n

Norm(n, d) ==
    LET g == GCD(IAbs(n), IAbs(d))
        s == IF d < 0 THEN -1 ELSE 1
    IN  <<(s * n) \div g, (s * d) \div g>>

Q(n) == <<n, 1>>
Zero == Q(0)
Add(a, b) ==
    LET g == GCD(a[2], b[2])
    IN  Norm(a[1] * (b[2] \div g) + b[1] * (a[2] \div g), (a[2] \div g) * b[2])
Neg(a) == <<-a[1], a[2]>>
Sub(a, b) == Add(a, Neg(b))
Mul(a, b) == Norm(a[1] * b[1], a[2] * b[2])
Div(a, b) == Norm(a[1] * b[2], a[2] * b[1])
Half(a) == Norm(a[1], 2 * a[2])
Lt(a, b) ==
    LET g == GCD(a[2], b[2])
    IN  a[1] * (b[2] \div g) < b[1] * (a[2] \div g)
Le(a, b) ==
    LET g == GCD(a[2], b[2])
    IN  a[1] * (b[2] \div g) <= b[1] * (a[2] \div g)
Gt(a, b) == Lt(b, a)
Ge(a, b) == Le(b, a)
Abs(a) == <<IAbs(a[1]), a[2]>>

RECURSIVE ISqrtIn(_, _, _)
ISqrtIn(n, lo, hi) ==
    IF lo >= hi THEN lo
    ELSE LET mid == (lo + hi + 1) \div 2
         IN  IF mid * mid <= n THEN ISqrtIn(n, mid, hi) ELSE ISqrtIn(n, lo, mid - 1)

ISqrt(n) == ISqrtIn(n, 0, IF n < 46340 THEN n ELSE 46340)

IsSquare(a) == ISqrt(a[1]) * ISqrt(a[1]) = a[1] /\ ISqrt(a[2]) * ISqrt(a[2]) = a[2]

\* np.sqrt on a rational whose numerator and denominator are perfect squares
Sqrt(a) == <<ISqrt(a[1]), ISqrt(a[2])>>

\* a two-component vector (np.array of length 2) is <<x, y>>, components 1 and 2
VAdd(u, v) == <<Add(u[1], v[1]), Add(u[2], v[2])>>
VSub(u, v) == <<Sub(u[1], v[1]), Sub(u[2], v[2])>>
V(x, y) == <<Q(x), Q(y)>>

Range(s) == {s[i] : i \in DOMAIN s}

----------------------------------------------------------------------------
(* quadtree.py: Boundary *)

Boundary(x, y, w, h) == [x |-> x, y |-> y, w |-> w, h |-> h]

\* Boundary.contains, on the particle's position
Contains(b, pos) ==
    /\ Ge(pos[1], Sub(b.x, b.w))
    /\ Le(pos[1], Add(b.x, b.w))
    /\ Ge(pos[2], Sub(b.y, b.h))
    /\ Le(pos[2], Add(b.y, b.h))

Intersects(b, range) ==
    ~ \/ Gt(Sub(range.x, range.w), Add(b.x, b.w))
      \/ Lt(Add(range.x, range.w), Sub(b.x, b.w))
      \/ Gt(Sub(range.y, range.h), Add(b.y, b.h))
      \/ Lt(Add(range.y, range.h), Sub(b.y, b.h))

----------------------------------------------------------------------------
(* particle.py: Particle *)

\* Particle.__init__: old_pos = pos - vel; acc is kept out of the state, it is
\* zero again at the end of every Particle.update
Particle(pos, vel, radius) ==
    [pos |-> pos, vel |-> vel, old_pos |-> VSub(pos, vel), radius |-> radius]

----------------------------------------------------------------------------
(* quadtree.py: QuadTree.  A node is named by its path from the root: <<>> *)
(* is the root, Append(path, k) its child k, in the order the code visits   *)
(* them: 1 = nw, 2 = ne, 3 = sw, 4 = se.  A node that is None is absent     *)
(* from the domain of the tree.                                             *)

QUADTREE_CAPACITY == 2

\* Python's recursion limit, scaled down: a call nested deeper raises RecursionError
RecursionLimit == 8

Quadrants == 1..4

\* QuadTree.__init__
Node(boundary) == [boundary |-> boundary, particles |-> <<>>, divided |-> FALSE]

NewTree(boundary) == [path \in {<<>>} |-> Node(boundary)]

Children(path) == {Append(path, k) : k \in Quadrants}

\* ChildBoundary with the south-east child given the south-west centre
ChildBoundarySeAsSw(b, k) ==
    LET w == Half(b.w)
        h == Half(b.h)
    IN  CASE k = 1 -> Boundary(Sub(b.x, w), Sub(b.y, h), w, h)
          [] k = 2 -> Boundary(Add(b.x, w), Sub(b.y, h), w, h)
          [] k = 3 -> Boundary(Sub(b.x, w), Add(b.y, h), w, h)
          [] k = 4 -> Boundary(Sub(b.x, w), Add(b.y, h), w, h)

\* the four child boundaries computed by QuadTree.subdivide
ChildBoundary(b, k) ==
    LET w == Half(b.w)
        h == Half(b.h)
    IN  CASE k = 1 -> Boundary(Sub(b.x, w), Sub(b.y, h), w, h)
          [] k = 2 -> Boundary(Add(b.x, w), Sub(b.y, h), w, h)
          [] k = 3 -> Boundary(Sub(b.x, w), Add(b.y, h), w, h)
          [] k = 4 -> Boundary(Add(b.x, w), Add(b.y, h), w, h)

\* Subdivide that also empties the node it divides
SubdivideDropping(qt, path) ==
    [n \in DOMAIN qt \cup Children(path) |->
        IF n = path THEN [qt[path] EXCEPT !.divided = TRUE, !.particles = <<>>]
        ELSE IF n \in Children(path)
             THEN Node(ChildBoundary(qt[path].boundary, n[Len(n)]))
             ELSE qt[n]]

\* QuadTree.subdivide on the node at path
Subdivide(qt, path) ==
    [n \in DOMAIN qt \cup Children(path) |->
        IF n = path THEN [qt[path] EXCEPT !.divided = TRUE]
        ELSE IF n \in Children(path)
             THEN Node(ChildBoundary(qt[path].boundary, n[Len(n)]))
             ELSE qt[n]]

\* Insert that offers the particle to all four children instead of stopping at
\* the first child that takes it
RECURSIVE InsertEveryChild(_, _, _, _, _)
InsertEveryChild(qt, path, ps, p, depth) ==
    IF depth > RecursionLimit
    THEN [qt |-> qt, ok |-> FALSE, err |-> TRUE]
    ELSE IF ~Contains(qt[path].boundary, ps[p].pos)
    THEN [qt |-> qt, ok |-> FALSE, err |-> FALSE]
    ELSE IF Len(qt[path].particles) < QUADTREE_CAPACITY /\ ~qt[path].divided
    THEN [qt |-> [qt EXCEPT ![path].particles = Append(@, p)],
          ok |-> TRUE, err |-> FALSE]
    ELSE LET q0 == IF ~qt[path].divided THEN Subdivide(qt, path) ELSE qt
             r1 == InsertEveryChild(q0, Append(path, 1), ps, p, depth + 1)
             r2 == InsertEveryChild(r1.qt, Append(path, 2), ps, p, depth + 1)
             r3 == InsertEveryChild(r2.qt, Append(path, 3), ps, p, depth + 1)
             r4 == InsertEveryChild(r3.qt, Append(path, 4), ps, p, depth + 1)
         IN  [qt |-> r4.qt,
              ok |-> r1.ok \/ r2.ok \/ r3.ok \/ r4.ok,
              err |-> r1.err \/ r2.err \/ r3.err \/ r4.err]

\* QuadTree.insert of particle p (an index of ps) into the node at path.
\* Result: the tree, ok (the value returned), err (RecursionError raised).
RECURSIVE Insert(_, _, _, _, _)
Insert(qt, path, ps, p, depth) ==
    IF depth > RecursionLimit
    THEN [qt |-> qt, ok |-> FALSE, err |-> TRUE]
    ELSE IF ~Contains(qt[path].boundary, ps[p].pos)
    THEN [qt |-> qt, ok |-> FALSE, err |-> FALSE]
    ELSE IF Len(qt[path].particles) < QUADTREE_CAPACITY /\ ~qt[path].divided
    THEN [qt |-> [qt EXCEPT ![path].particles = Append(@, p)],
          ok |-> TRUE, err |-> FALSE]
    ELSE LET q0 == IF ~qt[path].divided THEN Subdivide(qt, path) ELSE qt
             r1 == Insert(q0, Append(path, 1), ps, p, depth + 1)
             r2 == Insert(r1.qt, Append(path, 2), ps, p, depth + 1)
             r3 == Insert(r2.qt, Append(path, 3), ps, p, depth + 1)
             r4 == Insert(r3.qt, Append(path, 4), ps, p, depth + 1)
         IN  IF r1.ok \/ r1.err THEN r1
             ELSE IF r2.ok \/ r2.err THEN r2
             ELSE IF r3.ok \/ r3.err THEN r3
             ELSE r4

\* Query that reads the particles of leaves only, passing over those a divided
\* node holds itself
RECURSIVE QueryLeavesOnly(_, _, _, _, _)
QueryLeavesOnly(qt, path, ps, range, found) ==
    IF ~Intersects(qt[path].boundary, range) THEN found
    ELSE IF qt[path].divided
         THEN QueryLeavesOnly(qt, Append(path, 4), ps, range,
                QueryLeavesOnly(qt, Append(path, 3), ps, range,
                  QueryLeavesOnly(qt, Append(path, 2), ps, range,
                    QueryLeavesOnly(qt, Append(path, 1), ps, range, found))))
         ELSE found \o SelectSeq(qt[path].particles,
                                 LAMBDA p : Contains(range, ps[p].pos))

\* QuadTree.query: found grows in traversal order
RECURSIVE Query(_, _, _, _, _)
Query(qt, path, ps, range, found) ==
    IF ~Intersects(qt[path].boundary, range) THEN found
    ELSE LET here == found \o SelectSeq(qt[path].particles,
                                        LAMBDA p : Contains(range, ps[p].pos))
         IN  IF qt[path].divided
             THEN Query(qt, Append(path, 4), ps, range,
                    Query(qt, Append(path, 3), ps, range,
                      Query(qt, Append(path, 2), ps, range,
                        Query(qt, Append(path, 1), ps, range, here))))
             ELSE here

\* QuadTree.clear on the root
Clear(qt) == NewTree(qt[<<>>].boundary)

----------------------------------------------------------------------------
(* simulation.py: Simulation.__init__ *)

\* config.SCREEN_WIDTH, config.SCREEN_HEIGHT (main.py hands them to Simulation).
\* The container is as high as one particle is wide: the two rows of the grid
\* are clamped onto one line y = 1 by their first reflections, and every
\* collision after that is along x.
Width == 16
Height == 2

\* self.boundary = Boundary(width/2, height/2, width/2, height/2)
RootBoundary == Boundary(Half(Q(Width)), Half(Q(Height)), Half(Q(Width)), Half(Q(Height)))

----------------------------------------------------------------------------
(* simulation.py: Simulation.handle_collision and Simulation.apply_boundary *)

\* config.COLLISION: the squared-distance floor, the approach-speed floor and
\* the restitution coefficient
MIN_DISTANCE == <<1, 16>>
MIN_VELOCITY == <<1, 8>>
RESTITUTION == <<1, 2>>

\* MassRatio with the particle's own mass in the numerator
MassRatioOwn(radius, other_radius) ==
    Div(Mul(radius, radius), Add(Mul(radius, radius), Mul(other_radius, other_radius)))

\* the mass ratio of handle_collision for the particle of the first radius:
\* mass is radius ** 2, and the ratio is the other particle's share of the total
MassRatio(radius, other_radius) ==
    Div(Mul(other_radius, other_radius),
        Add(Mul(radius, radius), Mul(other_radius, other_radius)))

\* the guards of handle_collision up to the second early return: the pair is
\* moved iff this holds
Colliding(p1, p2) ==
    LET dx == Sub(p1.pos[1], p2.pos[1])
        dy == Sub(p1.pos[2], p2.pos[2])
        min_dist == Add(p1.radius, p2.radius)
        dist_sq == Add(Mul(dx, dx), Mul(dy, dy))
    IN  /\ ~(Gt(Abs(dx), min_dist) \/ Gt(Abs(dy), min_dist))
        /\ ~(Ge(dist_sq, Mul(min_dist, min_dist)) \/ Lt(dist_sq, MIN_DISTANCE))

\* Simulation.handle_collision(p1, p2): the two particles afterwards
HandleCollision(p1, p2) ==
    IF ~Colliding(p1, p2) THEN <<p1, p2>>
    ELSE
    LET dx == Sub(p1.pos[1], p2.pos[1])
        dy == Sub(p1.pos[2], p2.pos[2])
        min_dist == Add(p1.radius, p2.radius)
        dist_sq == Add(Mul(dx, dx), Mul(dy, dy))
        dist == Sqrt(dist_sq)
        inv_dist == IF Gt(dist, Zero) THEN Div(Q(1), dist) ELSE Zero
        nx == Mul(dx, inv_dist)
        ny == Mul(dy, inv_dist)
        p1_mass_ratio == MassRatio(p1.radius, p2.radius)
        p2_mass_ratio == MassRatio(p2.radius, p1.radius)
        delta == Sub(min_dist, dist)
        pos1 == <<Add(p1.pos[1], Mul(Mul(nx, delta), p1_mass_ratio)),
                  Add(p1.pos[2], Mul(Mul(ny, delta), p1_mass_ratio))>>
        pos2 == <<Sub(p2.pos[1], Mul(Mul(nx, delta), p2_mass_ratio)),
                  Sub(p2.pos[2], Mul(Mul(ny, delta), p2_mass_ratio))>>
        rvx == Sub(p1.vel[1], p2.vel[1])
        rvy == Sub(p1.vel[2], p2.vel[2])
        vel_normal == Add(Mul(rvx, nx), Mul(rvy, ny))
        impulse == Neg(Mul(Add(Q(1), RESTITUTION), vel_normal))
        vel1 == <<Add(p1.vel[1], Mul(Mul(nx, impulse), p1_mass_ratio)),
                  Add(p1.vel[2], Mul(Mul(ny, impulse), p1_mass_ratio))>>
        vel2 == <<Sub(p2.vel[1], Mul(Mul(nx, impulse), p2_mass_ratio)),
                  Sub(p2.vel[2], Mul(Mul(ny, impulse), p2_mass_ratio))>>
    IN  IF Gt(vel_normal, Neg(MIN_VELOCITY))
        THEN <<[p1 EXCEPT !.pos = pos1], [p2 EXCEPT !.pos = pos2]>>
        ELSE <<[p1 EXCEPT !.pos = pos1, !.vel = vel1, !.old_pos = VSub(pos1, vel1)],
               [p2 EXCEPT !.pos = pos2, !.vel = vel2, !.old_pos = VSub(pos2, vel2)]>>

\* BoundaryAxis that clamps the centre, not the rim, to the wall
BoundaryAxisNoRadius(x, v, radius, extent) ==
    LET lowHit == Lt(Sub(x, radius), Zero)
        x1 == IF lowHit THEN Zero ELSE x
        v1 == IF lowHit THEN Neg(v) ELSE v
        highHit == Gt(Add(x1, radius), extent)
        x2 == IF highHit THEN extent ELSE x1
        v2 == IF highHit THEN Neg(v1) ELSE v1
    IN  [pos |-> x2, vel |-> v2, hit |-> lowHit \/ highHit]

\* one axis of apply_boundary: the two tests in the order of the code, the
\* second on the position the first has left; extent is the width or height
BoundaryAxis(x, v, radius, extent) ==
    LET lowHit == Lt(Sub(x, radius), Zero)
        x1 == IF lowHit THEN radius ELSE x
        v1 == IF lowHit THEN Neg(v) ELSE v
        highHit == Gt(Add(x1, radius), extent)
        x2 == IF highHit THEN Sub(extent, radius) ELSE x1
        v2 == IF highHit THEN Neg(v1) ELSE v1
    IN  [pos |-> x2, vel |-> v2, hit |-> lowHit \/ highHit]

\* Simulation.apply_boundary(particle)
ApplyBoundary(p) ==
    LET ax == BoundaryAxis(p.pos[1], p.vel[1], p.radius, Q(Width))
        ay == BoundaryAxis(p.pos[2], p.vel[2], p.radius, Q(Height))
    IN  [p EXCEPT !.pos = <<ax.pos, ay.pos>>, !.vel = <<ax.vel, ay.vel>>]

\* Particle.update(delta_time); push is self.acc * delta_time ** 2
Update(p, push) ==
    LET vel == VSub(p.pos, p.old_pos)
    IN  [p EXCEPT !.vel = vel, !.old_pos = p.pos, !.pos = VAdd(p.pos, VAdd(vel, push))]

----------------------------------------------------------------------------
(* simulation.py: the particle grid, resolve_collisions and update *)

\* config.NUM_PARTICLES, config.PARTICLE["MAX_RADIUS"], config.SUB_STEPS
NUM_PARTICLES == 3
MAX_RADIUS == 2
SUB_STEPS == 3

\* config.GRAVITY * sub_dt ** 2 while gravity is switched on
GravityStep == <<4, 1>>

\* the pointer force times sub_dt ** 2 on a particle: the pointer is held at
\* the height of the particle, to its left or to its right
PointerPushes == { V(-3, 0), V(3, 0) }

\* frames run, and pointer pushes applied, in one behaviour
MaxFrames == 1
MaxPushes == 2

Indices == 1..NUM_PARTICLES

\* int(np.ceil(np.sqrt(total)))
CeilSqrt(total) == CHOOSE c \in 0..total : c * c >= total /\ (c = 0 \/ (c - 1) * (c - 1) < total)

\* initialize_particle_grid, with zero noise and every radius at the low end
\* radius // 2 of its range; particle count + 1 stands in row r, column c
InitialParticles ==
    LET radius == MAX_RADIUS
        total == NUM_PARTICLES
        cols == CeilSqrt(total)
        rows == (total + cols - 1) \div cols
        origin_x == Width \div 2 - cols * radius
        origin_y == Height \div 2 - rows * radius
    IN  [count \in Indices |->
            LET r == (count - 1) \div cols
                c == (count - 1) % cols
            IN  Particle(V(origin_x + c * radius * 2, origin_y + r * radius * 2), V(0, 0),
                         Q(radius \div 2))]

Pairs == {{a, b} : a, b \in Indices} \ {{a} : a \in Indices}

\* what has happened in the running frame (counts) and pass (effects, missed),
\* which walls apply_boundary last moved each particle off, the pointer pushes
\* of the behaviour, and whether every square root taken so far was exact
FrameHist(pushes, exact) ==
    [integrated |-> [p \in Indices |-> 0],
     rebuilt |-> 0,
     inserted |-> [p \in Indices |-> 0],
     queried |-> [p \in Indices |-> 0],
     reflected |-> [p \in Indices |-> 0],
     effects |-> [pr \in Pairs |-> 0],
     missed |-> {},
     hit |-> [p \in Indices |-> <<FALSE, FALSE>>],
     pushes |-> pushes,
     exact |-> exact]

Init ==
    /\ particles = InitialParticles
    /\ quad_tree = NewTree(RootBoundary)
    /\ gravity = GravityStep
    /\ pc = "idle"
    /\ idx = 0
    /\ step = 0
    /\ frames = 0
    /\ ret = <<>>
    /\ hist = FrameHist(0, TRUE)

\* main.py, K_r: simulation = Simulation(...)
Reset ==
    /\ pc = "idle"
    /\ frames > 0
    /\ particles' = InitialParticles
    /\ quad_tree' = NewTree(RootBoundary)
    /\ step' = 0
    /\ hist' = FrameHist(hist.pushes, hist.exact)
    /\ UNCHANGED <<gravity, pc, idx, frames, ret>>

\* main.py, K_g: config.GRAVITY = 0 if config.GRAVITY == 980 else 980
ToggleGravity ==
    /\ pc = "idle"
    /\ gravity' = IF gravity = GravityStep THEN Zero ELSE GravityStep
    /\ UNCHANGED <<particles, quad_tree, pc, idx, step, frames, ret, hist>>

\* Simulation.update is entered: the first sub-step starts
UpdateBegin ==
    /\ pc = "idle"
    /\ frames < MaxFrames
    /\ frames' = frames + 1
    /\ step' = 0
    /\ idx' = 1
    /\ pc' = IF SUB_STEPS > 0 THEN "integrate" ELSE "idle"
    /\ hist' = FrameHist(hist.pushes, hist.exact)
    /\ UNCHANGED <<particles, quad_tree, gravity, ret>>

\* the forces on a particle times sub_dt ** 2: gravity sets the vertical
\* component, the pointer force (if a button is down) adds to it, the pointer
\* being inside the window at the height of the particle; config.DRAG and
\* config.VISCOSITY are zero
Forces(p, pushes) ==
    { <<Zero, gravity>> } \cup
    IF pushes < MaxPushes /\ Le(Zero, p.pos[2]) /\ Lt(p.pos[2], Q(Height))
    THEN { VAdd(<<Zero, gravity>>, f) : f \in PointerPushes }
    ELSE {}

\* Integrate with resolve_collisions run after the first particle of the loop
IntegrateFirstOnly ==
    /\ pc = "integrate"
    /\ \E push \in Forces(particles[idx], hist.pushes) :
          /\ particles' = [particles EXCEPT ![idx] = Update(@, push)]
          /\ hist' = [hist EXCEPT !.integrated[idx] = @ + 1,
                                  !.pushes = IF push[1] = Zero THEN @ ELSE @ + 1]
    /\ idx' = 1
    /\ pc' = "resolve"
    /\ UNCHANGED <<quad_tree, gravity, step, frames, ret>>

\* first loop of a sub-step, one particle: forces, then particle.update(sub_dt)
Integrate ==
    /\ pc = "integrate"
    /\ \E push \in Forces(particles[idx], hist.pushes) :
          /\ particles' = [particles EXCEPT ![idx] = Update(@, push)]
          /\ hist' = [hist EXCEPT !.integrated[idx] = @ + 1,
                                  !.pushes = IF push[1] = Zero THEN @ ELSE @ + 1]
    /\ idx' = IF idx < NUM_PARTICLES THEN idx + 1 ELSE 1
    /\ pc' = IF idx < NUM_PARTICLES THEN pc ELSE "resolve"
    /\ UNCHANGED <<quad_tree, gravity, step, frames, ret>>

\* resolve_collisions, its start: self.quad_tree.clear()
Rebuild ==
    /\ pc = "resolve"
    /\ quad_tree' = Clear(quad_tree)
    /\ idx' = 1
    /\ pc' = "insert"
    /\ hist' = [hist EXCEPT !.rebuilt = @ + 1,
                            !.effects = [pr \in Pairs |-> 0],
                            !.missed = {}]
    /\ UNCHANGED <<particles, gravity, step, frames, ret>>

\* first loop of resolve_collisions, one particle: self.quad_tree.insert(particle),
\* the value returned is dropped
InsertParticle ==
    /\ pc = "insert"
    /\ LET r == Insert(quad_tree, <<>>, particles, idx, 1)
       IN  /\ quad_tree' = r.qt
           /\ pc' = IF r.err THEN "RecursionError"
                    ELSE IF idx < NUM_PARTICLES THEN pc ELSE "query"
    /\ idx' = IF idx < NUM_PARTICLES THEN idx + 1 ELSE 1
    /\ hist' = [hist EXCEPT !.inserted[idx] = @ + 1]
    /\ UNCHANGED <<particles, gravity, step, frames, ret>>

\* the search range of resolve_collisions around a particle
SearchRange(p) ==
    Boundary(p.pos[1], p.pos[2],
             Add(p.radius, Q(MAX_RADIUS)), Add(p.radius, Q(MAX_RADIUS)))

\* dist_sq of handle_collision
DistSq(p1, p2) ==
    LET dx == Sub(p1.pos[1], p2.pos[1])
        dy == Sub(p1.pos[2], p2.pos[2])
    IN  Add(Mul(dx, dx), Mul(dy, dy))

\* the circles of two particles overlap
Overlapping(p, q) ==
    LET min_dist == Add(p.radius, q.radius)
    IN  Lt(DistSq(p, q), Mul(min_dist, min_dist))

\* second loop of resolve_collisions, one particle:
\* nearby = self.quad_tree.query(search_range)
Process ==
    /\ pc = "query"
    /\ \E nearby \in {Query(quad_tree, <<>>, particles, SearchRange(particles[idx]), <<>>)} :
          /\ ret' = [nearby |-> nearby, k |-> 1]
          /\ hist' = [hist EXCEPT
                        !.queried[idx] = @ + 1,
                        !.missed = @ \cup
                           {<<idx, q>> : q \in {q \in Indices \ {idx} :
                               /\ Overlapping(particles[idx], particles[q])
                               /\ q \notin Range(nearby)}}]
    /\ pc' = "handle"
    /\ UNCHANGED <<particles, quad_tree, gravity, idx, step, frames>>

\* for other in nearby, one element: skip the particle itself, else
\* self.handle_collision(particle, other)
Handle ==
    /\ pc = "handle"
    /\ ret.k <= Len(ret.nearby)
    /\ \E other \in {ret.nearby[ret.k]} :
          IF other = idx
          THEN UNCHANGED <<particles, hist>>
          ELSE \E r \in {HandleCollision(particles[idx], particles[other])} :
                  /\ particles' = [particles EXCEPT ![idx] = r[1], ![other] = r[2]]
                  /\ hist' = [hist EXCEPT
                                !.effects[{idx, other}] =
                                    IF r = <<particles[idx], particles[other]>> THEN @ ELSE @ + 1,
                                !.exact = @ /\ (Colliding(particles[idx], particles[other])
                                                  => IsSquare(DistSq(particles[idx],
                                                                     particles[other])))]
    /\ ret' = [ret EXCEPT !.k = @ + 1]
    /\ UNCHANGED <<quad_tree, gravity, pc, idx, step, frames>>

\* nearby is exhausted: the next particle is queried, or the pass is over
ProcessEnd ==
    /\ pc = "handle"
    /\ ret.k > Len(ret.nearby)
    /\ ret' = <<>>
    /\ idx' = IF idx < NUM_PARTICLES THEN idx + 1 ELSE 1
    /\ pc' = IF idx < NUM_PARTICLES THEN "query" ELSE "boundary"
    /\ UNCHANGED <<particles, quad_tree, gravity, step, frames, hist>>

\* third loop of a sub-step, one particle: apply_boundary; after the last
\* particle the next sub-step starts, or update returns
Reflect ==
    /\ pc = "boundary"
    /\ LET p == particles[idx]
       IN  /\ particles' = [particles EXCEPT ![idx] = ApplyBoundary(p)]
           /\ hist' = [hist EXCEPT
                         !.reflected[idx] = @ + 1,
                         !.hit[idx] =
                            <<BoundaryAxis(p.pos[1], p.vel[1], p.radius, Q(Width)).hit,
                              BoundaryAxis(p.pos[2], p.vel[2], p.radius, Q(Height)).hit>>]
    /\ idx' = IF idx < NUM_PARTICLES THEN idx + 1 ELSE 1
    /\ step' = IF idx < NUM_PARTICLES THEN step ELSE step + 1
    /\ pc' = IF idx < NUM_PARTICLES THEN pc
             ELSE IF step + 1 < SUB_STEPS THEN "integrate" ELSE "idle"
    /\ UNCHANGED <<quad_tree, gravity, frames, ret>>

Next == Reset \/ ToggleGravity \/ UpdateBegin \/ Integrate \/ Rebuild
           \/ InsertParticle \/ Process \/ Handle \/ ProcessEnd \/ Reflect

Spec == Init /\ [][Next]_vars

InFrame == pc \in {"idle", "integrate", "resolve", "insert", "query", "handle", "boundary"}

\* every square root taken by handle_collision was that of a square
SqrtArgsExact == InFrame => hist.exact

----------------------------------------------------------------------------
(* The quadtree on its own: particles are created at chosen positions and  *)
(* inserted one by one, the tree is queried and cleared.                   *)

MaxInserts == 5

\* the region the tree is built over: a square of side 16
BoundaryQT == Boundary(Q(8), Q(8), Q(8), Q(8))

\* positions offered to insert: the centre of the root (in all four children), a
\* point on the line shared by two children, a corner of the root (in one
\* child), and a point outside the root
PointsQT ==
    { V(8, 8), V(8, 4), V(16, 16), V(-1, 8) }

\* ranges offered to query: the root boundary, and a smaller one
RangesQT ==
    { BoundaryQT, Boundary(Q(12), Q(10), Q(4), Q(2)) }

NoHist == [inserted |-> <<>>, subdivided |-> 0]

InitQT ==
    /\ particles = <<>>
    /\ quad_tree = NewTree(BoundaryQT)
    /\ gravity = Zero
    /\ pc = "quadtree"
    /\ idx = 0
    /\ step = 0
    /\ frames = 0
    /\ ret = <<>>
    /\ hist = NoHist

\* p = Particle(pos); quad_tree.insert(p)
QTInsert ==
    /\ pc = "quadtree"
    /\ Len(particles) < MaxInserts
    /\ \E pos \in PointsQT :
         LET ps == Append(particles, Particle(pos, V(0, 0), Q(5)))
             r == Insert(quad_tree, <<>>, ps, Len(ps), 1)
         IN  /\ particles' = ps
             /\ quad_tree' = r.qt
             /\ pc' = IF r.err THEN "RecursionError" ELSE pc
             /\ hist' = [inserted |-> Append(hist.inserted, r.ok),
                         subdivided |-> (Cardinality(DOMAIN r.qt)
                                           - Cardinality(DOMAIN quad_tree)) \div 4]
    /\ ret' = <<>>
    /\ UNCHANGED <<gravity, idx, step, frames>>

\* ret = quad_tree.query(range_)
QTQuery ==
    /\ pc = "quadtree"
    /\ \E range \in RangesQT :
         ret' = [range |-> range, found |-> Query(quad_tree, <<>>, particles, range, <<>>)]
    /\ UNCHANGED <<particles, quad_tree, gravity, pc, idx, step, frames, hist>>

\* quad_tree.clear(); the particles inserted so far are dropped with it
QTClear ==
    /\ pc = "quadtree"
    /\ particles # <<>>
    /\ quad_tree' = Clear(quad_tree)
    /\ particles' = <<>>
    /\ hist' = NoHist
    /\ ret' = <<>>
    /\ UNCHANGED <<gravity, pc, idx, step, frames>>

NextQT == QTInsert \/ QTQuery \/ QTClear

SpecQT == InitQT /\ [][NextQT]_vars

----------------------------------------------------------------------------
(* Claims about the quadtree, checked under SpecQT *)

\* the places (node, position in its list) where particle p is stored
StoredAt(qt, p) ==
    {<<path, i>> \in {<<n, j>> : n \in DOMAIN qt, j \in 1..QUADTREE_CAPACITY + 1} :
        i <= Len(qt[path].particles) /\ qt[path].particles[i] = p}

ChildrenOf(qt, path) == Children(path) \cap DOMAIN qt

AllInsideRoot == \A p \in DOMAIN particles : Contains(BoundaryQT, particles[p].pos)

QueriedRoot == pc = "quadtree" /\ ret # <<>> /\ ret.range = BoundaryQT

\* C1: after inserts of particles inside the root boundary into a cleared tree,
\* a query over the root boundary returns every inserted particle exactly once
\* and nothing else.
C1_QueryRootReturnsInserted ==
    (QueriedRoot /\ AllInsideRoot) =>
        /\ Range(ret.found) = DOMAIN particles
        /\ Len(ret.found) = Len(particles)

C1_Witness ==
    /\ QueriedRoot /\ AllInsideRoot
    /\ Len(ret.found) > QUADTREE_CAPACITY
    /\ \E n \in DOMAIN quad_tree : quad_tree[n].divided

\* C2: a particle for which insert returned true is stored in exactly one place
\* of exactly one node, also when it lies on a line shared by several children;
\* a particle for which insert returned false is stored nowhere.
C2_StoredExactlyOnce ==
    pc = "quadtree" =>
        \A p \in DOMAIN particles :
            Cardinality(StoredAt(quad_tree, p)) = IF hist.inserted[p] THEN 1 ELSE 0

\* a particle at the centre of the root, which all four children contain, was
\* accepted by a child, and a particle outside the root was refused
C2_Witness ==
    /\ pc = "quadtree"
    /\ \E p \in DOMAIN particles :
          /\ particles[p].pos = V(8, 8)
          /\ hist.inserted[p]
          /\ \E s \in StoredAt(quad_tree, p) : Len(s[1]) >= 1
    /\ \E p \in DOMAIN particles : ~hist.inserted[p]

\* C3 as stated: a node has no children and at most capacity particles, or has
\* four children and no particles of its own.
C3_Original ==
    \A n \in DOMAIN quad_tree :
        \/ ChildrenOf(quad_tree, n) = {} /\ Len(quad_tree[n].particles) <= QUADTREE_CAPACITY
        \/ Cardinality(ChildrenOf(quad_tree, n)) = 4 /\ Len(quad_tree[n].particles) = 0

\* C3 as amended: a node has no children and at most capacity particles, or has
\* four children and keeps exactly capacity particles of its own.
C3_NodeShape ==
    \A n \in DOMAIN quad_tree :
        \/ /\ ~quad_tree[n].divided
           /\ ChildrenOf(quad_tree, n) = {}
           /\ Len(quad_tree[n].particles) <= QUADTREE_CAPACITY
        \/ /\ quad_tree[n].divided
           /\ Cardinality(ChildrenOf(quad_tree, n)) = 4
           /\ Len(quad_tree[n].particles) = QUADTREE_CAPACITY

\* a divided node below the root, and a cleared tree refilled is covered by QTClear
C3_Witness ==
    \E n \in DOMAIN quad_tree : n # <<>> /\ quad_tree[n].divided

\* C10: insert ends without exhausting the recursion; for a particle inside the
\* root it returns true after at most one subdivision, also onto a stack of
\* coincident particles; for a particle outside it returns false and leaves the
\* tree as it was.
C10_InsertTerminates ==
    [][ Len(particles') = Len(particles) + 1 =>
          LET p == Len(particles')
          IN  /\ pc' # "RecursionError"
              /\ Contains(BoundaryQT, particles'[p].pos) =>
                    /\ hist'.inserted[p]
                    /\ hist'.subdivided <= 1
              /\ ~Contains(BoundaryQT, particles'[p].pos) =>
                    /\ ~hist'.inserted[p]
                    /\ quad_tree' = quad_tree ]_vars

\* more than capacity coincident particles are stored, the last one below the root
C10_Witness ==
    /\ pc = "quadtree"
    /\ \E p \in DOMAIN particles :
          /\ Cardinality({q \in DOMAIN particles :
                             particles[q].pos = particles[p].pos /\ hist.inserted[q]})
                > QUADTREE_CAPACITY
          /\ \E s \in StoredAt(quad_tree, p) : Len(s[1]) >= 1
    /\ \E p \in DOMAIN particles : ~hist.inserted[p]

----------------------------------------------------------------------------
(* handle_collision on its own: a pair of particles is drawn, and the      *)
(* handler is called on it, once and once again.                           *)

MaxCalls == 2

\* p1 stands at (40, 50); p2 stands at p1 minus one of these offsets: along an
\* axis or along a Pythagorean direction (so that the distance is rational),
\* overlapping, touching, apart, and coincident
OffsetsHC ==
    { V(-8, 0), V(8, 0), V(0, 6), V(3, 4), V(-6, -8), V(-4, 3), V(6, 8),
      V(0, 0), V(12, 0), V(9, 9) }

RadiiHC == { <<5, 5>>, <<5, 3>>, <<3, 4>>, <<2, 6>> }

VelsHC == { <<V(0, 0), V(0, 0)>>, <<V(1, 0), V(-1, 0)>>, <<V(-2, 1), V(1, 1)>>,
            <<V(0, -1), V(3, 2)>> }

InitHC ==
    /\ \E off \in OffsetsHC, r \in RadiiHC, v \in VelsHC :
          particles = << Particle(V(40, 50), v[1], Q(r[1])),
                         Particle(VSub(V(40, 50), off), v[2], Q(r[2])) >>
    /\ quad_tree = NewTree(RootBoundary)
    /\ gravity = Zero
    /\ pc = "handle"
    /\ idx = 0
    /\ step = 0
    /\ frames = 0
    /\ ret = <<>>
    /\ hist = [input |-> particles, before |-> particles, calls |-> 0]

\* self.handle_collision(p1, p2)
HCCall ==
    /\ pc = "handle"
    /\ hist.calls < MaxCalls
    /\ particles' = HandleCollision(particles[1], particles[2])
    /\ hist' = [hist EXCEPT !.before = particles, !.calls = @ + 1]
    /\ UNCHANGED <<quad_tree, gravity, pc, idx, step, frames, ret>>

NextHC == HCCall

SpecHC == InitHC /\ [][NextHC]_vars

Sq(a) == Mul(a, a)

\* every square root taken by a call of the handler is exact
SqrtArgsExactHC ==
    (pc = "handle" /\ Colliding(particles[1], particles[2]))
        => IsSquare(DistSq(particles[1], particles[2]))

\* C8: a call on a pair with MIN_DISTANCE <= squared distance < (r1 + r2)^2
\* leaves the pair at distance r1 + r2 exactly, each moved along the line of
\* centres away from the other, with the mass-weighted midpoint
\* (r1^2 pos1 + r2^2 pos2) / (r1^2 + r2^2) unchanged, hence p1 moved by the
\* share r2^2 / (r1^2 + r2^2) and p2 by r1^2 / (r1^2 + r2^2) of the gap; and
\* the pair of radius 5 at (40,50), (48,50) at rest ends 10 or more apart.
C8_SeparationExact ==
    (pc = "handle" /\ hist.calls >= 1) =>
        LET b1 == hist.before[1]
            b2 == hist.before[2]
            a1 == particles[1]
            a2 == particles[2]
            m1 == Sq(b1.radius)
            m2 == Sq(b2.radius)
            d1 == VSub(a1.pos, b1.pos)
            d2 == VSub(a2.pos, b2.pos)
            c == VSub(b1.pos, b2.pos)
        IN  /\ ( /\ Ge(DistSq(b1, b2), MIN_DISTANCE)
                 /\ Lt(DistSq(b1, b2), Sq(Add(b1.radius, b2.radius))) ) =>
                    /\ DistSq(a1, a2) = Sq(Add(b1.radius, b2.radius))
                    /\ Sub(Mul(d1[1], c[2]), Mul(d1[2], c[1])) = Zero
                    /\ Gt(Add(Mul(d1[1], c[1]), Mul(d1[2], c[2])), Zero)
                    /\ Add(Mul(m1, d1[1]), Mul(m2, d2[1])) = Zero
                    /\ Add(Mul(m1, d1[2]), Mul(m2, d2[2])) = Zero
            /\ hist.input = << Particle(V(40, 50), V(0, 0), Q(5)),
                               Particle(V(48, 50), V(0, 0), Q(5)) >> =>
                    Ge(Abs(Sub(a1.pos[1], a2.pos[1])), Q(10))

\* a pair of unequal radii, overlapping off the axes, has been separated
C8_Witness ==
    /\ pc = "handle" /\ hist.calls = 1
    /\ Colliding(hist.before[1], hist.before[2])
    /\ hist.before[1].radius # hist.before[2].radius
    /\ hist.before[1].pos[1] # hist.before[2].pos[1]
    /\ hist.before[1].pos[2] # hist.before[2].pos[2]
    /\ particles[1].vel # hist.before[1].vel

----------------------------------------------------------------------------
(* Claims about the update loop, checked under Spec *)

InContainer(p) ==
    /\ Le(p.radius, p.pos[1]) /\ Le(p.pos[1], Sub(Q(Width), p.radius))
    /\ Le(p.radius, p.pos[2]) /\ Le(p.pos[2], Sub(Q(Height), p.radius))

\* the particle has been through apply_boundary since it was last integrated
ReflectedSinceIntegrated(p) ==
    hist.integrated[p] > 0 /\ hist.reflected[p] = hist.integrated[p]

\* C4: once apply_boundary has run on a particle in a sub-step, and so at the
\* end of every sub-step for all of them, a particle whose diameter fits the
\* container has radius <= x <= width - radius and radius <= y <= height -
\* radius, wherever integration and collisions had left it.
C4_InsideAfterBoundary ==
    InFrame =>
        \A p \in Indices :
            ( /\ ReflectedSinceIntegrated(p)
              /\ Le(Add(particles[p].radius, particles[p].radius), Q(Width))
              /\ Le(Add(particles[p].radius, particles[p].radius), Q(Height)) )
                => InContainer(particles[p])

\* a sub-step has ended with a particle taken off a side wall and all particles
\* taken off the floor
C4_Witness ==
    /\ pc \in {"idle", "integrate"} /\ idx = 1 /\ step > 0
    /\ \A p \in Indices : ReflectedSinceIntegrated(p) /\ hist.hit[p][2]
    /\ \E p \in Indices : hist.hit[p][1]

\* C5 as stated: whenever a particle is processed in the collision pass, every
\* particle whose circle overlaps its own is among the results of its query.
C5_BroadPhaseComplete ==
    InFrame => hist.missed = {}

\* C6 as stated: in one pass at most one call of the handler on a pair changes
\* anything.
C6_OneEffectPerPair ==
    InFrame => \A pr \in Pairs : hist.effects[pr] <= 1

\* C7 as stated: after apply_boundary has clamped a particle on an axis and
\* negated its velocity there, the velocity the next Particle.update derives
\* under zero acceleration on that axis is the negated one.
C7_ElasticBounce ==
    [][ (pc = "integrate" /\ pc' \in {"integrate", "resolve"}) =>
          \A a \in 1..2 :
              ( /\ hist.hit[idx][a]
                /\ ReflectedSinceIntegrated(idx)
                /\ particles[idx].vel[a] # Zero
                /\ particles'[idx].pos[a]
                     = Add(particles[idx].pos[a], particles'[idx].vel[a]) )
                 => particles'[idx].vel[a] = particles[idx].vel[a] ]_vars

\* C9: within a frame, with s sub-steps finished, every particle has been
\* integrated, inserted, queried and reflected s or s + 1 times and the tree
\* cleared s or s + 1 times; the clear of a sub-step comes after all its
\* integrations, its inserts after the clear and all of them before its first query, a reflection only after all its queries, and an
\* integration only after all reflections of the sub-step before; update
\* returns after exactly SUB_STEPS sub-steps; the particle count is fixed.
C9_PhaseOrder ==
    InFrame =>
        /\ Len(particles) = NUM_PARTICLES
        /\ hist.rebuilt \in {step, step + 1}
        /\ \A p \in Indices :
              /\ hist.integrated[p] \in {step, step + 1}
              /\ hist.inserted[p] \in {step, step + 1}
              /\ hist.queried[p] \in {step, step + 1}
              /\ hist.reflected[p] \in {step, step + 1}
        /\ hist.rebuilt = step + 1 => \A p \in Indices : hist.integrated[p] = step + 1
        /\ \A p \in Indices :
              /\ hist.inserted[p] = step + 1 => hist.rebuilt = step + 1
              /\ hist.queried[p] = step + 1 =>
                    \A q \in Indices : hist.inserted[q] = step + 1
              /\ hist.reflected[p] = step + 1 =>
                    \A q \in Indices : hist.queried[q] = step + 1
              /\ hist.integrated[p] = step + 1 =>
                    \A q \in Indices : hist.reflected[q] >= step
        /\ (pc = "idle" /\ frames > 0 /\ hist.rebuilt > 0) =>
              /\ step = SUB_STEPS
              /\ hist.rebuilt = SUB_STEPS
              /\ \A p \in Indices :
                    /\ hist.integrated[p] = SUB_STEPS
                    /\ hist.inserted[p] = SUB_STEPS
                    /\ hist.queried[p] = SUB_STEPS
                    /\ hist.reflected[p] = SUB_STEPS

\* update has returned from a frame of SUB_STEPS sub-steps in which a pair collided
C9_Witness ==
    /\ pc = "idle" /\ frames > 0 /\ step = SUB_STEPS
    /\ hist.rebuilt = SUB_STEPS
    /\ \E pr \in Pairs : hist.effects[pr] > 0

====
